---- MODULE Spec2Model ----
(***************************************************************************)
(* Model of the pure core of src/app/page.tsx: the FEN decoder parseFEN    *)
(* (called by the ChessBoard component) and the markdown renderer          *)
(* renderMarkdown / formatInline, and of the Page component with its       *)
(* install banner and the free-play panel's agent call.                    *)
(*                                                                         *)
(* A JavaScript string is a sequence of one-character strings.  A          *)
(* JavaScript value is a tagged record: Str(s), Undefined, or Num(n) (a    *)
(* non-string value such as an agent response may carry).  The outcome of  *)
(* a call is Ok(value) or Throw(error).                                    *)
(***************************************************************************)
EXTENDS Integers, Sequences, FiniteSets, TLC

VARIABLES fen, board, lastFen, lastBoard, renders, text, rendered,
          activeSection, showSample, sidebarOpen, installPrompt, showInstallBanner,
          localStorage, listening, installCall,
          currentFen, fenInput, analysis, loading, error, activeAgentId, request,
          isTraining, selectedOpening, openingData, userInput, chatHistory,
          puzzleData, answerInput, hintsRevealed, showSolution, puzzleStats,
          pgnInput, reviewData, selectedMoveIndex, inFlight

fenVars == <<fen, board, lastFen, lastBoard, renders>>
mdVars == <<text, rendered>>
pageVars == <<activeSection, showSample, sidebarOpen, installPrompt, showInstallBanner,
              localStorage, listening, installCall>>
jogarVars == <<currentFen, fenInput, analysis, loading, error, activeAgentId, request>>
aberturasVars == <<isTraining, selectedOpening, openingData, userInput, chatHistory>>
puzzlesVars == <<puzzleData, answerInput, hintsRevealed, showSolution, puzzleStats>>
revisaoVars == <<pgnInput, reviewData, selectedMoveIndex>>
panelVars == <<aberturasVars, puzzlesVars, revisaoVars, inFlight>>
vars == <<fenVars, mdVars, pageVars, jogarVars, panelVars>>

(***************************************************************************)
(* Bounds of the model.                                                    *)
(***************************************************************************)
MaxFenLen == 2
MaxRanks == 9
MaxRenders == 2
MaxTextLen == 3
MaxLines == 3
MaxInFlight == 2
MaxAnswers == 2
MaxChat == 3

(***************************************************************************)
(* JavaScript values and call outcomes.                                    *)
(***************************************************************************)
Str(s) == [t |-> "string", s |-> s]
Undefined == [t |-> "undefined"]
Num(n) == [t |-> "number", n |-> n]
Ok(v) == [t |-> "ok", val |-> v]
Throw(e) == [t |-> "throw", err |-> e]
Bool(b) == [t |-> "boolean", b |-> b]
Pending == [t |-> "pending"]
NotMounted == [t |-> "unmounted"]

\* !v  for the values of the model
FalsyUndefinedOnly(v) == v.t = "undefined"
Falsy(v) ==
  \/ v.t = "undefined"
  \/ v.t = "null"
  \/ v.t = "string" /\ v.s = <<>>
  \/ v.t = "number" /\ v.n = 0
  \/ v.t = "boolean" /\ ~v.b

\* o.k  on an object of an agent response: undefined when absent
Get(o, k) == IF k \in DOMAIN o THEN o[k] ELSE Undefined

\* v.split, v.startsWith ... exist only on strings
IsString(v) == v.t = "string"

\* UTF-16 code unit of the characters the model uses
CharCode(c) ==
  CASE c = "\t" -> 9  [] c = "\n" -> 10 [] c = "\r" -> 13 [] c = " " -> 32
    [] c = "#" -> 35  [] c = "*" -> 42  [] c = "-" -> 45  [] c = "." -> 46
    [] c = "/" -> 47  [] c = "0" -> 48  [] c = "1" -> 49  [] c = "2" -> 50
    [] c = "3" -> 51  [] c = "4" -> 52  [] c = "5" -> 53  [] c = "6" -> 54
    [] c = "7" -> 55  [] c = "8" -> 56  [] c = "9" -> 57  [] c = "B" -> 66
    [] c = "K" -> 75  [] c = "N" -> 78  [] c = "P" -> 80  [] c = "Q" -> 81
    [] c = "R" -> 82  [] c = "a" -> 97  [] c = "b" -> 98  [] c = "k" -> 107
    [] c = "n" -> 110 [] c = "p" -> 112 [] c = "q" -> 113 [] c = "r" -> 114
    [] c = "w" -> 119 [] c = "x" -> 120

\* s.indexOf(sep, p) for a one-character separator (1-based, 0 when absent)
indexOf(s, sep, p) ==
  LET found == { i \in p..Len(s) : s[i] = sep }
  IN  IF found = {} THEN 0 ELSE CHOOSE i \in found : \A j \in found : i <= j

\* String.prototype.split(sep) for a one-character separator: the pieces
\* of s from index p on
RECURSIVE splitFrom(_, _, _)
splitFrom(s, sep, p) ==
  LET q == indexOf(s, sep, p)
  IN  IF q = 0 THEN << SubSeq(s, p, Len(s)) >>
      ELSE << SubSeq(s, p, q - 1) >> \o splitFrom(s, sep, q + 1)

split(s, sep) == splitFrom(s, sep, 1)

(***************************************************************************)
(* parseFEN                                                                *)
(***************************************************************************)
Empties(n) == [k \in 1..n |-> ""]

\* Array(8).fill(null).map(() => Array(8).fill(''))
EmptyBoard == [r \in 1..8 |-> Empties(8)]

\* char >= '1' && char <= '8'
IsSkipDigitWide(char) == CharCode(char) >= CharCode("0") /\ CharCode(char) <= CharCode("9")
IsSkipDigit(char) == CharCode(char) >= CharCode("1") /\ CharCode(char) <= CharCode("8")

\* parseInt(char) for a decimal digit
parseInt(char) == CharCode(char) - CharCode("0")

\* the body of  for (const char of row)
pushCharOffByOne(squares, char) ==
  IF IsSkipDigit(char) THEN squares \o Empties(parseInt(char) + 1)
  ELSE Append(squares, char)
pushCharFront(squares, char) ==
  IF IsSkipDigit(char) THEN Empties(parseInt(char)) \o squares
  ELSE <<char>> \o squares
pushChar(squares, char) ==
  IF IsSkipDigit(char) THEN squares \o Empties(parseInt(char))
  ELSE Append(squares, char)

RECURSIVE scanRow(_, _, _)
scanRow(row, i, squares) ==
  IF i > Len(row) THEN squares
  ELSE scanRow(row, i + 1, pushChar(squares, row[i]))

\* while (squares.length < 8) squares.push('')
padRowNone(squares) == squares
padRow(squares) ==
  IF Len(squares) < 8 THEN squares \o Empties(8 - Len(squares)) ELSE squares

\* the callback of rows.map
decodeRow(row) == padRow(scanRow(row, 1, <<>>))

\* fen.split(' ')[0]
firstFieldWhole(s) == Str(s)
firstField(s) ==
  LET fields == split(s, " ")
  IN  IF Len(fields) >= 1 THEN Str(fields[1]) ELSE Undefined

\* const rows = fen.split(' ')[0]?.split('/') ?? []
rowsSkipEmpty(s) ==
  LET f == firstField(s)
  IN  IF f = Undefined THEN Ok(<<>>)
      ELSE Ok(SelectSeq(split(f.s, "/"), LAMBDA r : r # <<>>))
rowsUnguarded(s) ==
  LET fields == split(s, " ")
  IN  IF Len(fields) >= 2 THEN Ok(split(fields[2], "/")) ELSE Throw("TypeError")
rows(s) ==
  LET f == firstField(s)
  IN  IF f = Undefined THEN Ok(<<>>) ELSE Ok(split(f.s, "/"))

parseFEN(v) ==
  IF Falsy(v) THEN Ok(EmptyBoard)
  ELSE IF ~IsString(v) THEN Throw("TypeError")
  ELSE LET rs == rows(v.s)
       IN  IF rs.t = "throw" THEN rs
           ELSE Ok([r \in 1..Len(rs.val) |-> decodeRow(rs.val[r])])

INITIAL_FEN ==
  << "r","n","b","q","k","b","n","r","/","p","p","p","p","p","p","p","p","/",
     "8","/","8","/","8","/","8","/","P","P","P","P","P","P","P","P","/",
     "R","N","B","Q","K","B","N","R"," ","w"," ","K","Q","k","q"," ","-"," ",
     "0"," ","1" >>

(***************************************************************************)
(* formatInline and renderMarkdown.  A React element is a record of its    *)
(* tag, its key and its children; children are a string, an array of       *)
(* elements, or none.                                                      *)
(***************************************************************************)
Null == [t |-> "null"]
NoChildren == [t |-> "none"]
Arr(items) == [t |-> "array", items |-> items]
Elem(tag, key, children) == [tag |-> tag, key |-> key, children |-> children]

\* the characters that . does not match
LineTerminators == {"\n", "\r"}

\* the characters of the model that \s matches and trim() removes
WhiteSpace == {" ", "\t", "\n", "\r"}

\* the characters \d matches
Digits == {"0", "1", "2", "3", "4", "5", "6", "7", "8", "9"}

\* line.slice(n)
sliceOffByOne(line, n) == SubSeq(line, n, Len(line))
slice(line, n) == SubSeq(line, n + 1, Len(line))

\* line.startsWith(prefix)
startsWithLoose(line, prefix) ==
  /\ Len(line) >= Len(prefix) - 1
  /\ SubSeq(line, 1, Len(prefix) - 1) = SubSeq(prefix, 1, Len(prefix) - 1)
startsWith(line, prefix) ==
  /\ Len(line) >= Len(prefix)
  /\ SubSeq(line, 1, Len(prefix)) = prefix

\* one attempt of /\*\*(.*?)\*\*/ at index q: the lazy group stops at the
\* first closing ** that no line terminator separates from the opening one
matchBoldAtOpenEnded(s, q) ==
  LET closers == { k \in (q + 2)..(Len(s) + 1) :
                     /\ k = Len(s) + 1 \/ (k < Len(s) /\ s[k] = "*" /\ s[k + 1] = "*")
                     /\ \A j \in (q + 2)..(k - 1) : s[j] \notin LineTerminators }
      k0 == CHOOSE k \in closers : \A k2 \in closers : k <= k2
  IN  IF q + 1 <= Len(s) /\ s[q] = "*" /\ s[q + 1] = "*" /\ closers # {}
      THEN [found |-> TRUE, cap |-> SubSeq(s, q + 2, k0 - 1), end |-> k0 + 2]
      ELSE [found |-> FALSE]
matchBoldAt(s, q) ==
  LET closers == { k \in (q + 2)..(Len(s) - 1) :
                     /\ s[k] = "*" /\ s[k + 1] = "*"
                     /\ \A j \in (q + 2)..(k - 1) : s[j] \notin LineTerminators }
      k0 == CHOOSE k \in closers : \A k2 \in closers : k <= k2
  IN  IF q + 1 <= Len(s) /\ s[q] = "*" /\ s[q + 1] = "*" /\ closers # {}
      THEN [found |-> TRUE, cap |-> SubSeq(s, q + 2, k0 - 1), end |-> k0 + 2]
      ELSE [found |-> FALSE]

\* text.split(/\*\*(.*?)\*\*/g): p is the start of the pending piece, q the
\* index at which the next match is attempted
RECURSIVE splitBoldFrom(_, _, _, _)
splitBoldFrom(s, p, q, acc) ==
  IF q > Len(s) THEN Append(acc, SubSeq(s, p, Len(s)))
  ELSE LET m == matchBoldAt(s, q)
       IN  IF m.found
           THEN splitBoldFrom(s, m.end, m.end, acc \o <<SubSeq(s, p, q - 1), m.cap>>)
           ELSE splitBoldFrom(s, p, q + 1, acc)

\* text.split('**'): every marker is a separator
RECURSIVE splitMarkersFrom(_, _, _, _)
splitMarkersFrom(s, p, q, acc) ==
  IF q > Len(s) THEN Append(acc, SubSeq(s, p, Len(s)))
  ELSE IF q < Len(s) /\ s[q] = "*" /\ s[q + 1] = "*"
       THEN splitMarkersFrom(s, q + 2, q + 2, Append(acc, SubSeq(s, p, q - 1)))
       ELSE splitMarkersFrom(s, p, q + 1, acc)

splitBoldParity(s) == splitMarkersFrom(s, 1, 1, <<>>)
splitBold(s) == splitBoldFrom(s, 1, 1, <<>>)

formatInline(s) ==
  LET parts == splitBold(s)
  IN  IF Len(parts) = 1 THEN Str(s)
      ELSE Arr([i \in 1..Len(parts) |->
                  IF (i - 1) % 2 = 1 THEN Elem("strong", i - 1, Str(parts[i]))
                  ELSE Elem("Fragment", i - 1, Str(parts[i]))])

\* length of the match of /^\d+\.\s/ in line, 0 when there is none
RECURSIVE leadingDigits(_)
leadingDigits(line) ==
  IF line # <<>> /\ Head(line) \in Digits THEN 1 + leadingDigits(Tail(line)) ELSE 0

numberedPrefixOneDigit(line) ==
  IF Len(line) >= 3 /\ line[1] \in Digits /\ line[2] = "." /\ line[3] \in WhiteSpace
  THEN 3 ELSE 0
numberedPrefix(line) ==
  LET d == leadingDigits(line)
  IN  IF d >= 1 /\ Len(line) >= d + 2 /\ line[d + 1] = "." /\ line[d + 2] \in WhiteSpace
      THEN d + 2 ELSE 0

\* line.trim()
RECURSIVE trimStart(_)
trimStart(line) ==
  IF line # <<>> /\ Head(line) \in WhiteSpace THEN trimStart(Tail(line)) ELSE line

RECURSIVE trimEnd(_)
trimEnd(line) ==
  IF line # <<>> /\ line[Len(line)] \in WhiteSpace
  THEN trimEnd(SubSeq(line, 1, Len(line) - 1)) ELSE line

trim(line) == trimEnd(trimStart(line))

\* !line.trim()
isBlankNoTrim(line) == line = <<>>
isBlank(line) == trim(line) = <<>>

\* the callback of text.split('\n').map
renderLine(line, i) ==
  IF startsWith(line, <<"#", "#", "#", " ">>) THEN Elem("h4", i, Str(slice(line, 4)))
  ELSE IF startsWith(line, <<"#", "#", " ">>) THEN Elem("h3", i, Str(slice(line, 3)))
  ELSE IF startsWith(line, <<"#", " ">>) THEN Elem("h2", i, Str(slice(line, 2)))
  ELSE IF startsWith(line, <<"-", " ">>) \/ startsWith(line, <<"*", " ">>)
       THEN Elem("li-disc", i, formatInline(slice(line, 2)))
  ELSE IF numberedPrefix(line) > 0
       THEN Elem("li-decimal", i, formatInline(slice(line, numberedPrefix(line))))
  ELSE IF isBlank(line) THEN Elem("div-blank", i, NoChildren)
  ELSE Elem("p", i, formatInline(line))

\* text.split('\n')
linesDropTrailing(s) ==
  LET ls == split(s, "\n")
  IN  IF ls[Len(ls)] = <<>> THEN SubSeq(ls, 1, Len(ls) - 1) ELSE ls
linesSkipEmpty(s) == SelectSeq(split(s, "\n"), LAMBDA l : l # <<>>)
lines(s) == split(s, "\n")

\* renderMarkdown without its leading guard on the empty text
renderMarkdownUnguarded(v) ==
  IF v = Undefined THEN Ok(Null)
  ELSE IF ~IsString(v) THEN Throw("TypeError")
  ELSE Ok(Elem("div", Null,
               Arr([i \in 1..Len(lines(v.s)) |-> renderLine(lines(v.s)[i], i - 1)])))

renderMarkdown(v) ==
  IF Falsy(v) THEN Ok(Null)
  ELSE IF ~IsString(v) THEN Throw("TypeError")
  ELSE Ok(Elem("div", Null,
               Arr([i \in 1..Len(lines(v.s)) |-> renderLine(lines(v.s)[i], i - 1)])))

(***************************************************************************)
(* The FEN values handed to ChessBoard: every string over FenAlphabet of   *)
(* at most MaxFenLen characters, placement fields of up to MaxRanks rank   *)
(* descriptors followed by one of the trailing-field texts, the starting   *)
(* position, an absent value and a non-string value.                       *)
(***************************************************************************)
FenAlphabet == {"/", " ", "0", "1", "8", "9", "x"}

SeqsUpTo(S, n) == UNION {[1..k -> S] : k \in 0..n}

DescPool ==
  { <<"8">>, <<"4","P","3">>, <<"R","3","K","2","R">>, <<"7">>, <<"8","1">>,
    <<"9","x","0","1">>, <<>> }

TailPool == { <<>>, <<" ","w"," ","K","Q">>, <<" ","/","8">> }

RECURSIVE JoinRanks(_)
JoinRanks(ds) ==
  IF ds = <<>> THEN <<>>
  ELSE IF Len(ds) = 1 THEN ds[1]
  ELSE ds[1] \o <<"/">> \o JoinRanks(Tail(ds))

\* n descriptors: d1 on the first j ranks, d2 on the others
Layout(n, j, d1, d2) == JoinRanks([i \in 1..n |-> IF i <= j THEN d1 ELSE d2])

Placements ==
  { Layout(n, j, d1, d2) : n \in 1..MaxRanks, j \in {0, 1}, d1 \in DescPool, d2 \in DescPool }

FenStrings ==
  SeqsUpTo(FenAlphabet, MaxFenLen)
    \cup { p \o tl : p \in Placements, tl \in {<<>>, <<" ","w">>} }
    \cup { INITIAL_FEN }

FenValues == { Str(s) : s \in FenStrings } \cup { Undefined, Num(1) }

\* the characters of s before its first space (all of s when it has none)
BeforeFirstSpace(s) ==
  LET spaces == { i \in 1..Len(s) : s[i] = " " }
  IN  IF spaces = {} THEN s
      ELSE SubSeq(s, 1, (CHOOSE i \in spaces : \A j \in spaces : i <= j) - 1)

\* the same placement field with other trailing fields
Retailed(v) ==
  IF IsString(v) THEN { Str(BeforeFirstSpace(v.s) \o tl) : tl \in TailPool }
  ELSE {}

(***************************************************************************)
(* ChessBoard: each render decodes the fen prop; the owner of the board    *)
(* replaces the prop (setCurrentFen, a new puzzle or opening position).    *)
(***************************************************************************)
ChessBoardRender ==
  /\ board = Pending
  /\ board' = parseFEN(fen)
  /\ UNCHANGED <<fen, lastFen, lastBoard, renders, mdVars, pageVars, jogarVars, panelVars>>

SetFen ==
  /\ board \notin {Pending, NotMounted}
  /\ renders < MaxRenders
  /\ \E new \in Retailed(fen) \cup {Str(INITIAL_FEN)} :
        /\ new # fen
        /\ fen' = new
  /\ lastFen' = fen
  /\ lastBoard' = board
  /\ board' = Pending
  /\ renders' = renders + 1
  /\ UNCHANGED <<mdVars, pageVars, jogarVars, panelVars>>

(***************************************************************************)
(* The texts handed to renderMarkdown: every string over MdAlphabet of at  *)
(* most MaxTextLen characters, texts of up to MaxLines lines of LinePool,  *)
(* an absent value and a non-string value.                                 *)
(***************************************************************************)
MdAlphabet == {"#", " ", "-", "*", "1", ".", "\n", "a", "\t"}

LinePool ==
  { <<"#","#"," ","a">>, <<"-"," ","a"," ","*","*","b","*","*">>, <<"1","2",".","\t","a">>,
    <<" ","\t","\r">>, <<>>, <<"a"," ","*","*","b","*","*"," ","a">>,
    <<"#"," ","a"," ","*","*","b","*","*"," ","c">>, <<"#","#","#"," ","a">>,
    <<"#","#","#","#"," ","a">>, <<"*","*","a","\r","b","*","*">>,
    <<"*","*","a","*","*"," ","b"," ","*","*","c">> }

RECURSIVE JoinLines(_)
JoinLines(ls) ==
  IF ls = <<>> THEN <<>>
  ELSE IF Len(ls) = 1 THEN ls[1]
  ELSE ls[1] \o <<"\n">> \o JoinLines(Tail(ls))

TextStrings ==
  SeqsUpTo(MdAlphabet, MaxTextLen)
    \cup { JoinLines(ls) : ls \in UNION {[1..k -> LinePool] : k \in 1..MaxLines} }

TextValues == { Str(s) : s \in TextStrings } \cup { Undefined, Num(1) }

(***************************************************************************)
(* A panel renders an agent text through renderMarkdown.                   *)
(***************************************************************************)
RenderMarkdown ==
  /\ rendered = Pending
  /\ rendered' = renderMarkdown(text)
  /\ UNCHANGED <<text, fenVars, pageVars, jogarVars, panelVars>>

(***************************************************************************)
(* The Page component: section navigation, the sample-data switch, the     *)
(* mobile sidebar and the PWA install banner with its localStorage flag.   *)
(***************************************************************************)
Sections == {"jogar", "aberturas", "puzzles", "revisao"}
StorageKeys == {"pwa-install-dismissed"}
True == Str(<<"t", "r", "u", "e">>)
PromptEvent == [t |-> "event", type |-> "beforeinstallprompt"]
Idle == [t |-> "idle"]
Awaiting(what, e) == [t |-> "await", on |-> what, event |-> e]

\* localStorage.getItem / setItem
getItem(store, k) == store[k]
setItem(store, k, v) == [store EXCEPT ![k] = v]

\* the mount effect: the listener is registered unless the flag reads 'true'
effectListens(store) == getItem(store, "pwa-install-dismissed") # True

\* PWAInstallBanner is on screen
BannerShown == showInstallBanner /\ ~Falsy(installPrompt)

(***************************************************************************)
(* JogarSection: the state of the free-play panel that analyzePosition     *)
(* reads and writes.  request is the call of analyzePosition that awaits   *)
(* callAIAgent, with the fenInput its closure captured.                    *)
(***************************************************************************)
CHESS_ANALYSIS_AGENT == Str(<<"6", "9", "9", "a">>)
FenInputs == { <<>>, <<" ">>, <<" ", "8", " ">> }
NoError == Str(<<>>)
NoDataError == Str(<<"S", "e", "m", " ", "d", "a", "d", "o", "s">>)
AnalyzeError == Str(<<"E", "r", "r", "o">>)

\* result?.response?.result of the agent's answers, or a rejected call
DataPool ==
  { [t |-> "object", summary |-> Str(<<"o", "k">>),
     best_moves |-> Arr(<< Str(<<"e", "4">>) >>)],
    [t |-> "object", summary |-> Undefined, best_moves |-> Str(<<"e", "4">>),
     material_balance |-> Num(1)] }
AgentOutcomes == { Throw("Error"), Ok(Undefined) } \cup { Ok(d) : d \in DataPool }

\* x ?? d
Coalesce(x, d) == IF x \in {Undefined, Null} THEN d ELSE x
\* Array.isArray(x) ? x : []
ArrayOr(x) == IF x.t = "array" THEN x ELSE Arr(<<>>)

JogarMount ==
  /\ currentFen' = Str(INITIAL_FEN)
  /\ fenInput' = Str(<<>>)
  /\ analysis' = Null
  /\ loading' = FALSE
  /\ error' = NoError
  /\ activeAgentId' = Null
  /\ request' = Null

(***************************************************************************)
(* The state of AberturasSection, PuzzlesSection and RevisaoSection when   *)
(* the section is mounted.  Only the active section is rendered, so the    *)
(* loading, error and activeAgentId of the model are those of the section  *)
(* on screen; inFlight holds its calls that await callAIAgent, each with   *)
(* what its closure captured.                                              *)
(***************************************************************************)
NoStats == [streak |-> 0, total |-> 0, correct |-> 0]

PanelInitial ==
  /\ isTraining = FALSE
  /\ selectedOpening = Str(<<>>)
  /\ openingData = Null
  /\ userInput = Str(<<>>)
  /\ chatHistory = <<>>
  /\ puzzleData = Null
  /\ answerInput = Str(<<>>)
  /\ hintsRevealed = 0
  /\ showSolution = FALSE
  /\ puzzleStats = NoStats
  /\ pgnInput = Str(<<>>)
  /\ reviewData = Null
  /\ selectedMoveIndex = Null
  /\ inFlight = <<>>

PanelMount ==
  /\ isTraining' = FALSE
  /\ selectedOpening' = Str(<<>>)
  /\ openingData' = Null
  /\ userInput' = Str(<<>>)
  /\ chatHistory' = <<>>
  /\ puzzleData' = Null
  /\ answerInput' = Str(<<>>)
  /\ hintsRevealed' = 0
  /\ showSolution' = FALSE
  /\ puzzleStats' = NoStats
  /\ pgnInput' = Str(<<>>)
  /\ reviewData' = Null
  /\ selectedMoveIndex' = Null
  /\ inFlight' = <<>>

\* the sidebar's handleNavClick: onNavigate(key); onClose().  A section is
\* rendered only while it is the active one: leaving it discards its state
\* and a response to a discarded panel sets nothing.
Navigate ==
  \E key \in Sections :
     /\ key # activeSection
     /\ activeSection' = key
     /\ sidebarOpen' = FALSE
     /\ JogarMount
     /\ PanelMount
     /\ UNCHANGED <<showSample, installPrompt, showInstallBanner, localStorage, listening,
                    installCall, fenVars, mdVars>>

ToggleSample ==
  /\ showSample' = ~showSample
  /\ UNCHANGED <<activeSection, sidebarOpen, installPrompt, showInstallBanner, localStorage,
                 listening, installCall, jogarVars, fenVars, mdVars, panelVars>>

\* the hamburger button and the sidebar's close button / backdrop
ToggleSidebar ==
  /\ sidebarOpen' = ~sidebarOpen
  /\ UNCHANGED <<activeSection, showSample, installPrompt, showInstallBanner, localStorage,
                 listening, installCall, jogarVars, fenVars, mdVars, panelVars>>

\* the browser fires beforeinstallprompt at the registered handler
BeforeInstallPrompt ==
  /\ listening
  /\ installPrompt' = PromptEvent
  /\ showInstallBanner' = TRUE
  /\ UNCHANGED <<activeSection, showSample, sidebarOpen, localStorage, listening,
                 installCall, jogarVars, fenVars, mdVars, panelVars>>

\* handleInstall up to  await installPrompt.prompt()
HandleInstall ==
  /\ BannerShown
  /\ installCall = Idle
  /\ installCall' = Awaiting("prompt", installPrompt)
  /\ UNCHANGED <<activeSection, showSample, sidebarOpen, installPrompt, showInstallBanner,
                 localStorage, listening, jogarVars, fenVars, mdVars, panelVars>>

\* prompt() settles: on to  await installPrompt.userChoice, or into the catch
HandleInstallPrompted ==
  /\ installCall.t = "await" /\ installCall.on = "prompt"
  /\ \E rejected \in BOOLEAN :
        installCall' = IF rejected THEN Idle ELSE Awaiting("userChoice", installCall.event)
  /\ UNCHANGED <<activeSection, showSample, sidebarOpen, installPrompt, showInstallBanner,
                 localStorage, listening, jogarVars, fenVars, mdVars, panelVars>>

\* handleInstall with the choice also recorded in storage
HandleInstallChoicePersisted ==
  /\ installCall.t = "await" /\ installCall.on = "userChoice"
  /\ \E result \in { Ok([outcome |-> "accepted"]), Ok([outcome |-> "dismissed"]),
                    Ok(Undefined), Throw("Error") } :
        IF result.t = "ok" /\ result.val # Undefined /\ result.val.outcome = "accepted"
        THEN /\ showInstallBanner' = FALSE
             /\ installPrompt' = Null
             /\ localStorage' = setItem(localStorage, "pwa-install-dismissed", True)
        ELSE UNCHANGED <<showInstallBanner, installPrompt, localStorage>>
  /\ installCall' = Idle
  /\ UNCHANGED <<activeSection, showSample, sidebarOpen, listening,
                 jogarVars, fenVars, mdVars, panelVars>>

\* userChoice settles: result?.outcome === 'accepted' hides the banner
HandleInstallChoice ==
  /\ installCall.t = "await" /\ installCall.on = "userChoice"
  /\ \E result \in { Ok([outcome |-> "accepted"]), Ok([outcome |-> "dismissed"]),
                    Ok(Undefined), Throw("Error") } :
        IF result.t = "ok" /\ result.val # Undefined /\ result.val.outcome = "accepted"
        THEN /\ showInstallBanner' = FALSE
             /\ installPrompt' = Null
        ELSE UNCHANGED <<showInstallBanner, installPrompt>>
  /\ installCall' = Idle
  /\ UNCHANGED <<activeSection, showSample, sidebarOpen, localStorage, listening,
                 jogarVars, fenVars, mdVars, panelVars>>

HandleDismissInstall ==
  /\ BannerShown
  /\ showInstallBanner' = FALSE
  /\ installPrompt' = Null
  /\ localStorage' = setItem(localStorage, "pwa-install-dismissed", True)
  /\ UNCHANGED <<activeSection, showSample, sidebarOpen, listening, installCall,
                 jogarVars, fenVars, mdVars, panelVars>>

\* the FEN input's onChange
SetFenInput ==
  /\ activeSection = "jogar"
  /\ \E v \in FenInputs : fenInput' = Str(v) /\ fenInput' # fenInput
  /\ UNCHANGED <<currentFen, analysis, loading, error, activeAgentId, request,
                 pageVars, fenVars, mdVars, panelVars>>

\* analyzePosition up to  await callAIAgent(...); its button is disabled
\* while loading
AnalyzePosition ==
  /\ activeSection = "jogar"
  /\ ~loading
  /\ LET f == IF trim(fenInput.s) # <<>> THEN Str(trim(fenInput.s)) ELSE currentFen
     IN  /\ ~Falsy(f)
         /\ request' = [fen |-> f, fenInput |-> fenInput]
  /\ loading' = TRUE
  /\ error' = NoError
  /\ activeAgentId' = CHESS_ANALYSIS_AGENT
  /\ UNCHANGED <<currentFen, fenInput, analysis, pageVars, fenVars, mdVars, panelVars>>

\* the ChessAnalysis record that analyzePosition and analyzeGame store
AnalysisOf(data, type, evaluation) ==
  [t |-> "object",
   analysis_type |-> Coalesce(Get(data, "analysis_type"), type),
   position_evaluation |-> Coalesce(Get(data, "position_evaluation"), evaluation),
   best_moves |-> ArrayOr(Get(data, "best_moves")),
   strategic_themes |-> ArrayOr(Get(data, "strategic_themes")),
   move_classifications |-> ArrayOr(Get(data, "move_classifications")),
   summary |-> Coalesce(Get(data, "summary"), Str(<<>>)),
   material_balance |-> Coalesce(Get(data, "material_balance"), Str(<<>>)),
   key_weaknesses |-> ArrayOr(Get(data, "key_weaknesses"))]

\* callAIAgent settles with result: the rest of analyzePosition
AnalyzePositionSettledWith(result) ==
  /\ activeSection = "jogar"
  /\ request # Null
  /\ IF result.t = "throw"
     THEN /\ error' = AnalyzeError
          /\ UNCHANGED <<analysis, currentFen>>
     ELSE IF Falsy(result.val)
     THEN /\ error' = NoDataError
          /\ UNCHANGED <<analysis, currentFen>>
     ELSE /\ analysis' = AnalysisOf(result.val, Str(<<>>), Str(<<"0", ".", "0">>))
          /\ currentFen' = IF trim(request.fenInput.s) # <<>>
                           THEN Str(trim(request.fenInput.s)) ELSE currentFen
          /\ UNCHANGED error
  /\ loading' = FALSE
  /\ activeAgentId' = Null
  /\ request' = Null
  /\ UNCHANGED <<fenInput, pageVars, fenVars, mdVars, panelVars>>

AnalyzePositionSettled == \E result \in AgentOutcomes : AnalyzePositionSettledWith(result)

(***************************************************************************)
(* Calls that await callAIAgent: the outcome of a call is a rejection, an  *)
(* answer without result data, or an answer whose result?.response?.result *)
(* is one of the objects of a pool.                                        *)
(***************************************************************************)
RemoveAt(q, i) == SubSeq(q, 1, i - 1) \o SubSeq(q, i + 1, Len(q))
Awaits(op) == { i \in 1..Len(inFlight) : inFlight[i].op = op }
OutcomesOf(pool) == { Throw("Error"), Ok(Undefined) } \cup { Ok(d) : d \in pool }
NoResponseError == Str(<<"S", "e", "m", " ", "r", "e", "s", "p", "o", "s", "t", "a", " ", "d", "o", " ", "a", "g", "e", "n", "t", "e", ".">>)

(***************************************************************************)
(* AberturasSection: the catalogue (isTraining false) and the training     *)
(* view with its chat.                                                     *)
(***************************************************************************)
OPENING_TRAINER_AGENT == Str(<<"6", "9", "9", "a", "5", "3", "7", "7", "c", "0", "7", "1", "7", "3", "0", "6", "3", "5", "0", "4", "2", "3", "e", "e">>)
\* op.name of a card of OPENINGS_CATALOG
OpeningNames == { Str(<<"I", "t", "a", "l", "i", "a", "n", "a">>) }
UserInputs == { <<>>, <<" ">>, <<"e", "4">> }
StartError == Str(<<"E", "r", "r", "o", " ", "a", "o", " ", "i", "n", "i", "c", "i", "a", "r", " ", "t", "r", "e", "i", "n", "a", "m", "e", "n", "t", "o", ".">>)
SendError == Str(<<"E", "r", "r", "o", " ", "a", "o", " ", "e", "n", "v", "i", "a", "r", " ", "j", "o", "g", "a", "d", "a", ".">>)
StartedText(name) == Str(<<"T", "r", "e", "i", "n", "a", "m", "e", "n", "t", "o", " ", "d", "e", " ">> \o name.s \o <<" ", "i", "n", "i", "c", "i", "a", "d", "o", ".">>)
MoveRegistered == Str(<<"L", "a", "n", "c", "e", " ", "r", "e", "g", "i", "s", "t", "r", "a", "d", "o", ".">>)
ChatEntry(role, content) == [role |-> role, content |-> content]

\* answers of the agent to startTraining and sendMove: a well-formed
\* record, and one with absent fields and fields of the wrong type
OpeningPool ==
  { [t |-> "object",
     opening_name |-> Str(<<"R", "u", "y", " ", "L", "o", "p", "e", "z">>),
     eco_code |-> Str(<<"C", "6", "0">>),
     current_position_fen |-> Str(<<"8", "/", "8", "/", "8", "/", "8", "/", "4", "P", "3", "/", "8", "/", "8", "/", "8", " ", "b", " ", "-", " ", "-", " ", "0", " ", "1">>),
     current_move |-> Str(<<"e", "4">>),
     move_explanation |-> Str(<<"C", "o", "n", "t", "r", "o", "l", "a", " ", "o", " ", "c", "e", "n", "t", "r", "o">>),
     main_line |-> Arr(<< Str(<<"e", "4">>), Str(<<"e", "5">>) >>),
     user_move_feedback |-> Str(<<"B", "o", "m", " ", "l", "a", "n", "c", "e">>)],
    [t |-> "object",
     eco_code |-> Num(60),
     current_move |-> Null,
     main_line |-> Str(<<"e", "4">>),
     key_variations |-> [t |-> "object"],
     user_move_feedback |-> Str(<<>>)] }

\* x || y
OrElse(x, y) == IF Falsy(x) THEN y ELSE x

\* startTraining(name) up to  await callAIAgent(...): a card of the catalogue
StartTraining ==
  /\ activeSection = "aberturas"
  /\ ~isTraining
  /\ Len(inFlight) < MaxInFlight
  /\ \E name \in OpeningNames :
       /\ selectedOpening' = name
       /\ inFlight' = Append(inFlight, [op |-> "startTraining", name |-> name])
  /\ isTraining' = TRUE
  /\ loading' = TRUE
  /\ error' = NoError
  /\ chatHistory' = <<>>
  /\ activeAgentId' = OPENING_TRAINER_AGENT
  /\ UNCHANGED <<openingData, userInput, puzzlesVars, revisaoVars,
                 currentFen, fenInput, analysis, request, pageVars, fenVars, mdVars>>

StartedOpening(data, name) ==
  [t |-> "object",
   opening_name |-> Coalesce(Get(data, "opening_name"), name),
   eco_code |-> Coalesce(Get(data, "eco_code"), Str(<<>>)),
   current_position_fen |-> Coalesce(Get(data, "current_position_fen"), Str(INITIAL_FEN)),
   current_move |-> Coalesce(Get(data, "current_move"), Str(<<>>)),
   move_explanation |-> Coalesce(Get(data, "move_explanation"), Str(<<>>)),
   main_line |-> ArrayOr(Get(data, "main_line")),
   key_variations |-> ArrayOr(Get(data, "key_variations")),
   strategic_plans |-> ArrayOr(Get(data, "strategic_plans")),
   typical_mistakes |-> ArrayOr(Get(data, "typical_mistakes")),
   next_prompt |-> Coalesce(Get(data, "next_prompt"), Str(<<>>)),
   user_move_feedback |-> Coalesce(Get(data, "user_move_feedback"), Str(<<>>))]

\* the rest of startTraining
StartTrainingSettledWith(i, result) ==
  /\ activeSection = "aberturas"
  /\ i \in Awaits("startTraining")
  /\ IF result.t = "throw"
     THEN /\ error' = StartError
          /\ UNCHANGED <<openingData, chatHistory>>
     ELSE IF Falsy(result.val)
     THEN /\ error' = NoResponseError
          /\ UNCHANGED <<openingData, chatHistory>>
     ELSE /\ openingData' = StartedOpening(result.val, inFlight[i].name)
          /\ chatHistory' =
               << ChatEntry("agent", Coalesce(Get(result.val, "move_explanation"),
                                              StartedText(inFlight[i].name))) >>
          /\ UNCHANGED error
  /\ inFlight' = RemoveAt(inFlight, i)
  /\ loading' = FALSE
  /\ activeAgentId' = Null
  /\ UNCHANGED <<isTraining, selectedOpening, userInput, puzzlesVars, revisaoVars,
                 currentFen, fenInput, analysis, request, pageVars, fenVars, mdVars>>

StartTrainingSettled ==
  \E i \in Awaits("startTraining") : \E result \in OutcomesOf(OpeningPool) :
     StartTrainingSettledWith(i, result)

\* the chat input's onChange
SetUserInput ==
  /\ activeSection = "aberturas"
  /\ isTraining
  /\ \E v \in UserInputs : userInput' = Str(v) /\ userInput' # userInput
  /\ UNCHANGED <<isTraining, selectedOpening, openingData, chatHistory, inFlight,
                 puzzlesVars, revisaoVars, jogarVars, pageVars, fenVars, mdVars>>

\* sendMove up to  await callAIAgent(...).  The Proxima Jogada button is
\* disabled while loading; Enter in the chat input calls sendMove whatever
\* loading is.
SendMove ==
  /\ activeSection = "aberturas"
  /\ isTraining
  /\ ~Falsy(Str(trim(userInput.s)))
  /\ Len(inFlight) < MaxInFlight
  /\ Len(chatHistory) + Len(inFlight) + 2 <= MaxChat
  /\ chatHistory' = Append(chatHistory, ChatEntry("user", Str(trim(userInput.s))))
  /\ userInput' = Str(<<>>)
  /\ loading' = TRUE
  /\ error' = NoError
  /\ activeAgentId' = OPENING_TRAINER_AGENT
  /\ inFlight' = Append(inFlight, [op |-> "sendMove", msg |-> Str(trim(userInput.s)),
                                   selectedOpening |-> selectedOpening,
                                   openingData |-> openingData])
  /\ UNCHANGED <<isTraining, selectedOpening, openingData, puzzlesVars, revisaoVars,
                 currentFen, fenInput, analysis, request, pageVars, fenVars, mdVars>>

\* openingData?.k  of the openingData the call's closure captured
Kept(req, k) == IF req.openingData = Null THEN Undefined ELSE req.openingData[k]
ArrayOrKept(x, req, k) == IF x.t = "array" THEN x ELSE Coalesce(Kept(req, k), Arr(<<>>))

MovedOpening(data, req) ==
  [t |-> "object",
   opening_name |-> Coalesce(Get(data, "opening_name"), req.selectedOpening),
   eco_code |-> Coalesce(Coalesce(Get(data, "eco_code"), Kept(req, "eco_code")), Str(<<>>)),
   current_position_fen |->
      Coalesce(Coalesce(Get(data, "current_position_fen"),
                        Kept(req, "current_position_fen")), Str(INITIAL_FEN)),
   current_move |-> Coalesce(Get(data, "current_move"), Str(<<>>)),
   move_explanation |-> Coalesce(Get(data, "move_explanation"), Str(<<>>)),
   main_line |-> ArrayOrKept(Get(data, "main_line"), req, "main_line"),
   key_variations |-> ArrayOrKept(Get(data, "key_variations"), req, "key_variations"),
   strategic_plans |-> ArrayOrKept(Get(data, "strategic_plans"), req, "strategic_plans"),
   typical_mistakes |-> ArrayOrKept(Get(data, "typical_mistakes"), req, "typical_mistakes"),
   next_prompt |-> Coalesce(Get(data, "next_prompt"), Str(<<>>)),
   user_move_feedback |-> Coalesce(Get(data, "user_move_feedback"), Str(<<>>))]

\* the rest of sendMove; an answer without data sets nothing
SendMoveSettledWith(i, result) ==
  /\ activeSection = "aberturas"
  /\ i \in Awaits("sendMove")
  /\ IF result.t = "throw"
     THEN /\ error' = SendError
          /\ UNCHANGED <<openingData, chatHistory>>
     ELSE IF Falsy(result.val)
     THEN UNCHANGED <<error, openingData, chatHistory>>
     ELSE /\ openingData' = MovedOpening(result.val, inFlight[i])
          /\ chatHistory' =
               Append(chatHistory,
                      ChatEntry("agent", OrElse(Get(result.val, "user_move_feedback"),
                                                OrElse(Get(result.val, "move_explanation"),
                                                       MoveRegistered))))
          /\ UNCHANGED error
  /\ inFlight' = RemoveAt(inFlight, i)
  /\ loading' = FALSE
  /\ activeAgentId' = Null
  /\ UNCHANGED <<isTraining, selectedOpening, userInput, puzzlesVars, revisaoVars,
                 currentFen, fenInput, analysis, request, pageVars, fenVars, mdVars>>

SendMoveSettled ==
  \E i \in Awaits("sendMove") : \E result \in OutcomesOf(OpeningPool) :
     SendMoveSettledWith(i, result)

\* the Voltar ao Catalogo button of the training view
BackToCatalogue ==
  /\ activeSection = "aberturas"
  /\ isTraining
  /\ isTraining' = FALSE
  /\ openingData' = Null
  /\ chatHistory' = <<>>
  /\ error' = NoError
  /\ UNCHANGED <<selectedOpening, userInput, inFlight, loading, activeAgentId,
                 puzzlesVars, revisaoVars, currentFen, fenInput, analysis, request,
                 pageVars, fenVars, mdVars>>

(***************************************************************************)
(* PuzzlesSection.  The theme and the difficulty stay the initial          *)
(* selection.                                                              *)
(***************************************************************************)
TACTICS_COACH_AGENT == Str(<<"6", "9", "9", "a", "5", "3", "7", "7", "c", "0", "7", "1", "7", "3", "0", "6", "3", "5", "0", "4", "2", "3", "f", "0">>)
selectedTheme == Str(<<"F", "o", "r", "k">>)
selectedDifficulty == Str(<<"i", "n", "t", "e", "r", "m", "e", "d", "i", "a", "t", "e">>)
PuzzleFetchError == Str(<<"E", "r", "r", "o", " ", "a", "o", " ", "g", "e", "r", "a", "r", " ", "p", "u", "z", "z", "l", "e", ".">>)
SubmitError == Str(<<"E", "r", "r", "o", " ", "a", "o", " ", "v", "e", "r", "i", "f", "i", "c", "a", "r", " ", "r", "e", "s", "p", "o", "s", "t", "a", ".">>)
AnswerInputs == { <<>>, <<" ">>, <<"Q", "x", "f", "7", "#">> }

SAMPLE_PUZZLE ==
  [t |-> "object",
   puzzle_fen |-> Str(<<"r", "1", "b", "q", "k", "b", "1", "r", "/", "p", "p", "p", "p", "1", "p", "p", "p", "/", "2", "n", "2", "n", "2", "/", "4", "p", "2", "Q", "/", "2", "B", "1", "P", "3", "/", "8", "/", "P", "P", "P", "P", "1", "P", "P", "P", "/", "R", "N", "B", "1", "K", "1", "N", "R", " ", "w", " ", "K", "Q", "k", "q", " ", "-", " ", "4", " ", "4">>),
   side_to_move |-> Str(<<"w", "h", "i", "t", "e">>),
   difficulty |-> Str(<<"b", "e", "g", "i", "n", "n", "e", "r">>),
   tactical_theme |-> Str(<<"M", "a", "t", "e", " ", "e", "m", " ", "2">>),
   puzzle_prompt |-> Str(<<"B", "r", "a", "n", "c", "a", "s", " ", "j", "o", "g", "a", "m", " ", "e", " ", "d", "a", "o", " ", "m", "a", "t", "e", " ", "e", "m", " ", "2", " ", "l", "a", "n", "c", "e", "s", ".">>),
   solution |-> Arr(<< Str(<<"Q", "x", "f", "7", "#">>) >>),
   solution_explanation |-> Str(<<"A", " ", "d", "a", "m", "a", " ", "c", "a", "p", "t", "u", "r", "a", " ", "e", "m", " ", "f", "7", ".">>),
   hints |-> Arr(<< Str(<<"O", "b", "s", "e", "r", "v", "e", " ", "a", " ", "d", "i", "a", "g", "o", "n", "a", "l", " ", "d", "o", " ", "b", "i", "s", "p", "o", " ", "e", "m", " ", "c", "4">>), Str(<<"O", " ", "p", "o", "n", "t", "o", " ", "f", "7", " ", "e", "s", "t", "a", " ", "d", "e", "s", "p", "r", "o", "t", "e", "g", "i", "d", "o">>) >>),
   user_answer_feedback |-> Str(<<>>),
   is_correct |-> Bool(FALSE),
   pattern_lesson |-> Str(<<"O", " ", "m", "a", "t", "e", " ", "d", "o", " ", "P", "a", "s", "t", "o", "r", ".">>),
   next_action |-> Str(<<"n", "e", "w", "_", "p", "u", "z", "z", "l", "e">>)]

displayPuzzle == IF showSample /\ Falsy(puzzleData) THEN SAMPLE_PUZZLE ELSE puzzleData

\* answers of the agent to getNewPuzzle: a well-formed puzzle with two
\* hints, and one with absent fields and fields of the wrong type
PuzzlePool ==
  { [t |-> "object",
     puzzle_fen |-> Str(<<"6", "k", "1", "/", "5", "p", "p", "p", "/", "8", "/", "8", "/", "8", "/", "8", "/", "8", "/", "R", "3", "K", "3", " ", "w", " ", "-", " ", "-", " ", "0", " ", "1">>),
     tactical_theme |-> Str(<<"P", "i", "n">>),
     puzzle_prompt |-> Str(<<"M", "a", "t", "e", " ", "e", "m", " ", "1">>),
     solution |-> Arr(<< Str(<<"R", "a", "8", "#">>) >>),
     hints |-> Arr(<< Str(<<"a">>), Str(<<"R", "a", "8">>) >>)],
    [t |-> "object",
     side_to_move |-> Null,
     puzzle_prompt |-> Num(42),
     solution |-> Str(<<"R", "a", "8", "#">>),
     hints |-> [t |-> "object"],
     pattern_lesson |-> Arr(<<>>)] }

\* answers of the agent to submitAnswer: its feedback quotes the FEN it was
\* asked about; is_correct is true, 'true' or false
AnswerPool(req) ==
  { [t |-> "object", user_answer_feedback |-> req.puzzle_fen, is_correct |-> c] :
      c \in { Bool(TRUE), Str(<<"t", "r", "u", "e">>), Bool(FALSE) } }

GetNewPuzzle ==
  /\ activeSection = "puzzles"
  /\ ~loading
  /\ Len(inFlight) < MaxInFlight
  /\ loading' = TRUE
  /\ error' = NoError
  /\ hintsRevealed' = 0
  /\ showSolution' = FALSE
  /\ answerInput' = Str(<<>>)
  /\ activeAgentId' = TACTICS_COACH_AGENT
  /\ inFlight' = Append(inFlight, [op |-> "getNewPuzzle", theme |-> selectedTheme,
                                   difficulty |-> selectedDifficulty])
  /\ UNCHANGED <<puzzleData, puzzleStats, aberturasVars, revisaoVars,
                 currentFen, fenInput, analysis, request, pageVars, fenVars, mdVars>>

PuzzleOf(data, req) ==
  [t |-> "object",
   puzzle_fen |-> Coalesce(Get(data, "puzzle_fen"), Str(INITIAL_FEN)),
   side_to_move |-> Coalesce(Get(data, "side_to_move"), Str(<<"w", "h", "i", "t", "e">>)),
   difficulty |-> Coalesce(Get(data, "difficulty"), req.difficulty),
   tactical_theme |-> Coalesce(Get(data, "tactical_theme"), req.theme),
   puzzle_prompt |-> Coalesce(Get(data, "puzzle_prompt"), Str(<<>>)),
   solution |-> ArrayOr(Get(data, "solution")),
   solution_explanation |-> Coalesce(Get(data, "solution_explanation"), Str(<<>>)),
   hints |-> ArrayOr(Get(data, "hints")),
   user_answer_feedback |-> Str(<<>>),
   is_correct |-> Bool(FALSE),
   pattern_lesson |-> Coalesce(Get(data, "pattern_lesson"), Str(<<>>)),
   next_action |-> Coalesce(Get(data, "next_action"), Str(<<"n", "e", "w", "_", "p", "u", "z", "z", "l", "e">>))]

\* callAIAgent settles with result for the i-th awaiting call: the rest of
\* getNewPuzzle
GetNewPuzzleSettledWith(i, result) ==
  /\ activeSection = "puzzles"
  /\ i \in Awaits("getNewPuzzle")
  /\ IF result.t = "throw"
     THEN /\ error' = PuzzleFetchError
          /\ UNCHANGED puzzleData
     ELSE IF Falsy(result.val)
     THEN /\ error' = NoResponseError
          /\ UNCHANGED puzzleData
     ELSE /\ puzzleData' = PuzzleOf(result.val, inFlight[i])
          /\ UNCHANGED error
  /\ inFlight' = RemoveAt(inFlight, i)
  /\ loading' = FALSE
  /\ activeAgentId' = Null
  /\ UNCHANGED <<answerInput, hintsRevealed, showSolution, puzzleStats, aberturasVars,
                 revisaoVars, currentFen, fenInput, analysis, request, pageVars, fenVars,
                 mdVars>>

GetNewPuzzleSettled ==
  \E i \in Awaits("getNewPuzzle") : \E result \in OutcomesOf(PuzzlePool) :
     GetNewPuzzleSettledWith(i, result)

\* the answer input's onChange
SetAnswerInput ==
  /\ activeSection = "puzzles"
  /\ \E v \in AnswerInputs : answerInput' = Str(v) /\ answerInput' # answerInput
  /\ UNCHANGED <<puzzleData, hintsRevealed, showSolution, puzzleStats, inFlight,
                 aberturasVars, revisaoVars, jogarVars, pageVars, fenVars, mdVars>>

\* submitAnswer up to  await callAIAgent(...).  The Enviar button is disabled
\* while loading; Enter in the answer input calls submitAnswer whatever
\* loading is.
SubmitAnswer ==
  /\ activeSection = "puzzles"
  /\ ~(Falsy(Str(trim(answerInput.s))) \/ Falsy(puzzleData))
  /\ Len(inFlight) < MaxInFlight
  /\ puzzleStats.total + Cardinality(Awaits("submitAnswer")) < MaxAnswers
  /\ loading' = TRUE
  /\ error' = NoError
  /\ activeAgentId' = TACTICS_COACH_AGENT
  /\ inFlight' = Append(inFlight, [op |-> "submitAnswer",
                                   tactical_theme |-> puzzleData.tactical_theme,
                                   puzzle_fen |-> puzzleData.puzzle_fen,
                                   answer |-> Str(trim(answerInput.s))])
  /\ UNCHANGED <<puzzleData, answerInput, hintsRevealed, showSolution, puzzleStats,
                 aberturasVars, revisaoVars, currentFen, fenInput, analysis, request,
                 pageVars, fenVars, mdVars>>

\* data.is_correct === true || data.is_correct === 'true'
IsCorrect(data) == Get(data, "is_correct") \in { Bool(TRUE), Str(<<"t", "r", "u", "e">>) }

Evaluated(prev, data) ==
  IF Falsy(prev) THEN prev
  ELSE [prev EXCEPT
          !.user_answer_feedback = Coalesce(Get(data, "user_answer_feedback"), Str(<<>>)),
          !.is_correct = Bool(IsCorrect(data)),
          !.solution_explanation =
             Coalesce(Get(data, "solution_explanation"), prev.solution_explanation),
          !.pattern_lesson = Coalesce(Get(data, "pattern_lesson"), prev.pattern_lesson),
          !.next_action = Coalesce(Get(data, "next_action"), Str(<<"n", "e", "w", "_", "p", "u", "z", "z", "l", "e">>))]

\* the statistics without the reset of the streak
CountedKeepStreak(prev, isCorrect) ==
  [streak |-> IF isCorrect THEN prev.streak + 1 ELSE prev.streak,
   total |-> prev.total + 1,
   correct |-> IF isCorrect THEN prev.correct + 1 ELSE prev.correct]

Counted(prev, isCorrect) ==
  [streak |-> IF isCorrect THEN prev.streak + 1 ELSE 0,
   total |-> prev.total + 1,
   correct |-> IF isCorrect THEN prev.correct + 1 ELSE prev.correct]

\* the rest of submitAnswer; an answer without data sets nothing
SubmitAnswerSettledWith(i, result) ==
  /\ activeSection = "puzzles"
  /\ i \in Awaits("submitAnswer")
  /\ IF result.t = "throw"
     THEN /\ error' = SubmitError
          /\ UNCHANGED <<puzzleData, puzzleStats>>
     ELSE IF Falsy(result.val)
     THEN UNCHANGED <<error, puzzleData, puzzleStats>>
     ELSE /\ puzzleData' = Evaluated(puzzleData, result.val)
          /\ puzzleStats' = Counted(puzzleStats, IsCorrect(result.val))
          /\ UNCHANGED error
  /\ inFlight' = RemoveAt(inFlight, i)
  /\ loading' = FALSE
  /\ activeAgentId' = Null
  /\ UNCHANGED <<answerInput, hintsRevealed, showSolution, aberturasVars, revisaoVars,
                 currentFen, fenInput, analysis, request, pageVars, fenVars, mdVars>>

SubmitAnswerSettled ==
  \E i \in Awaits("submitAnswer") : \E result \in OutcomesOf(AnswerPool(inFlight[i])) :
     SubmitAnswerSettledWith(i, result)

\* the Dica button is disabled without a displayed puzzle and once all its
\* hints are revealed
RevealHint ==
  /\ activeSection = "puzzles"
  /\ ~Falsy(displayPuzzle)
  /\ hintsRevealed < Len(displayPuzzle.hints.items)
  /\ hintsRevealed' = hintsRevealed + 1
  /\ UNCHANGED <<puzzleData, answerInput, showSolution, puzzleStats, inFlight,
                 aberturasVars, revisaoVars, jogarVars, pageVars, fenVars, mdVars>>

\* the Mostrar Solucao button
ShowSolution ==
  /\ activeSection = "puzzles"
  /\ ~Falsy(displayPuzzle)
  /\ showSolution' = TRUE
  /\ UNCHANGED <<puzzleData, answerInput, hintsRevealed, puzzleStats, inFlight,
                 aberturasVars, revisaoVars, jogarVars, pageVars, fenVars, mdVars>>

(***************************************************************************)
(* RevisaoSection.  A move classification is written by its move number.   *)
(***************************************************************************)
PgnInputs == { <<>>, <<" ">>, <<"1", ".", " ", "e", "4">> }
GameError == Str(<<"E", "r", "r", "o", " ", "a", "o", " ", "a", "n", "a", "l", "i", "s", "a", "r", " ", "p", "a", "r", "t", "i", "d", "a", ".">>)

SAMPLE_REVIEW ==
  [t |-> "object",
   analysis_type |-> Str(<<"p", "g", "n", "_", "a", "n", "a", "l", "y", "s", "i", "s">>),
   position_evaluation |-> Str(<<"+", "0", ".", "3">>),
   best_moves |-> Arr(<< Str(<<"N", "f", "3">>) >>),
   strategic_themes |-> Arr(<< Str(<<"C", "o", "n", "t", "r", "o", "l", "e", " ", "c", "e", "n", "t", "r", "a", "l">>), Str(<<"D", "e", "s", "e", "n", "v", "o", "l", "v", "i", "m", "e", "n", "t", "o">>), Str(<<"E", "s", "t", "r", "u", "t", "u", "r", "a", " ", "d", "e", " ", "p", "e", "o", "e", "s">>) >>),
   move_classifications |->
      Arr(<< Str(<<"1", ".", " ", "e", "4">>),
             Str(<<"1", ".", ".", ".", "e", "5">>),
             Str(<<"2", ".", " ", "N", "f", "3">>),
             Str(<<"2", ".", ".", ".", "N", "c", "6">>),
             Str(<<"3", ".", " ", "B", "c", "4">>),
             Str(<<"4", ".", " ", "d", "3">>),
             Str(<<"5", ".", " ", "B", "g", "5">>),
             Str(<<"6", ".", " ", "B", "h", "4">>) >>),
   summary |-> Str(<<"P", "a", "r", "t", "i", "d", "a", " ", "c", "o", "m", " ", "b", "o", "m", " ", "i", "n", "i", "c", "i", "o", ".">>),
   material_balance |-> Str(<<"B", "r", "a", "n", "c", "a", "s", " ", "c", "o", "m", " ", "-", "1", " ", "p", "e", "a", "o">>),
   key_weaknesses |-> Arr(<< Str(<<"B", "i", "s", "p", "o", " ", "d", "e", "s", "l", "o", "c", "a", "d", "o", " ", "e", "m", " ", "h", "4">>), Str(<<"R", "o", "q", "u", "e", " ", "a", "t", "r", "a", "s", "a", "d", "o">>), Str(<<"C", "e", "n", "t", "r", "o", " ", "e", "n", "f", "r", "a", "q", "u", "e", "c", "i", "d", "o", " ", "a", "p", "o", "s", " ", "d", "3">>) >>)]

displayReview == IF showSample /\ Falsy(reviewData) THEN SAMPLE_REVIEW ELSE reviewData

\* Array.isArray(displayReview?.move_classifications) ? ... : []
classifications ==
  IF Falsy(displayReview) THEN <<>> ELSE ArrayOr(displayReview.move_classifications).items

\* answers of the agent to analyzeGame: a well-formed analysis of two
\* moves, and one with absent fields and fields of the wrong type
ReviewPool ==
  { [t |-> "object",
     analysis_type |-> Str(<<"p", "g", "n", "_", "a", "n", "a", "l", "y", "s", "i", "s">>),
     position_evaluation |-> Str(<<"+", "0", ".", "3">>),
     move_classifications |-> Arr(<< Str(<<"1", ".", " ", "e", "4">>), Str(<<"1", ".", ".", ".", "e", "5">>) >>),
     summary |-> Str(<<"B", "o", "a", " ", "p", "a", "r", "t", "i", "d", "a">>)],
    [t |-> "object",
     position_evaluation |-> Num(3),
     best_moves |-> Str(<<"N", "f", "3">>),
     move_classifications |-> Null,
     summary |-> Arr(<< Str(<<"B", "o", "a", " ", "p", "a", "r", "t", "i", "d", "a">>) >>)] }

\* the PGN input's onChange
SetPgnInput ==
  /\ activeSection = "revisao"
  /\ \E v \in PgnInputs : pgnInput' = Str(v) /\ pgnInput' # pgnInput
  /\ UNCHANGED <<reviewData, selectedMoveIndex, inFlight, aberturasVars, puzzlesVars,
                 jogarVars, pageVars, fenVars, mdVars>>

\* a row of the list of classified moves
SelectMove ==
  /\ activeSection = "revisao"
  /\ \E i \in 0..(Len(classifications) - 1) : selectedMoveIndex' = Num(i)
  /\ UNCHANGED <<pgnInput, reviewData, inFlight, aberturasVars, puzzlesVars,
                 jogarVars, pageVars, fenVars, mdVars>>

\* analyzeGame up to  await callAIAgent(...); its button is disabled while
\* loading and without a PGN
AnalyzeGame ==
  /\ activeSection = "revisao"
  /\ ~loading
  /\ ~Falsy(Str(trim(pgnInput.s)))
  /\ Len(inFlight) < MaxInFlight
  /\ loading' = TRUE
  /\ error' = NoError
  /\ selectedMoveIndex' = Null
  /\ activeAgentId' = CHESS_ANALYSIS_AGENT
  /\ inFlight' = Append(inFlight, [op |-> "analyzeGame", pgn |-> Str(trim(pgnInput.s))])
  /\ UNCHANGED <<pgnInput, reviewData, aberturasVars, puzzlesVars,
                 currentFen, fenInput, analysis, request, pageVars, fenVars, mdVars>>

\* analyzeGame, had its catch block dropped the analysis on screen
AnalyzeGameSettledWithClearing(i, result) ==
  /\ activeSection = "revisao"
  /\ i \in Awaits("analyzeGame")
  /\ IF result.t = "throw"
     THEN /\ error' = GameError
          /\ reviewData' = Null
     ELSE IF Falsy(result.val)
     THEN /\ error' = NoDataError
          /\ UNCHANGED reviewData
     ELSE /\ reviewData' = AnalysisOf(result.val, Str(<<"p", "g", "n", "_", "a", "n", "a", "l", "y", "s", "i", "s">>), Str(<<>>))
          /\ UNCHANGED error
  /\ inFlight' = RemoveAt(inFlight, i)
  /\ loading' = FALSE
  /\ activeAgentId' = Null
  /\ UNCHANGED <<pgnInput, selectedMoveIndex, aberturasVars, puzzlesVars,
                 currentFen, fenInput, analysis, request, pageVars, fenVars, mdVars>>

\* the rest of analyzeGame
AnalyzeGameSettledWith(i, result) ==
  /\ activeSection = "revisao"
  /\ i \in Awaits("analyzeGame")
  /\ IF result.t = "throw"
     THEN /\ error' = GameError
          /\ UNCHANGED reviewData
     ELSE IF Falsy(result.val)
     THEN /\ error' = NoDataError
          /\ UNCHANGED reviewData
     ELSE /\ reviewData' = AnalysisOf(result.val, Str(<<"p", "g", "n", "_", "a", "n", "a", "l", "y", "s", "i", "s">>), Str(<<>>))
          /\ UNCHANGED error
  /\ inFlight' = RemoveAt(inFlight, i)
  /\ loading' = FALSE
  /\ activeAgentId' = Null
  /\ UNCHANGED <<pgnInput, selectedMoveIndex, aberturasVars, puzzlesVars,
                 currentFen, fenInput, analysis, request, pageVars, fenVars, mdVars>>

AnalyzeGameSettled ==
  \E i \in Awaits("analyzeGame") : \E result \in OutcomesOf(ReviewPool) :
     AnalyzeGameSettledWith(i, result)

\* the state of a freshly loaded page, mount effect included
PageLoaded(store) ==
  /\ activeSection = "jogar"
  /\ showSample = FALSE
  /\ sidebarOpen = FALSE
  /\ installPrompt = Null
  /\ showInstallBanner = FALSE
  /\ localStorage = store
  /\ listening = effectListens(store)
  /\ installCall = Idle
  /\ currentFen = Str(INITIAL_FEN)
  /\ fenInput = Str(<<>>)
  /\ analysis = Null
  /\ loading = FALSE
  /\ error = NoError
  /\ activeAgentId = Null
  /\ request = Null
  /\ PanelInitial

\* the user reloads the page: the in-memory state is rebuilt, storage stays
Reload ==
  /\ activeSection' = "jogar"
  /\ showSample' = FALSE
  /\ sidebarOpen' = FALSE
  /\ installPrompt' = Null
  /\ showInstallBanner' = FALSE
  /\ listening' = effectListens(localStorage)
  /\ installCall' = Idle
  /\ JogarMount
  /\ PanelMount
  /\ UNCHANGED <<localStorage, fenVars, mdVars>>

\* the page is not part of the decoder's and the renderer's behaviours
PageIdle ==
  /\ activeSection = "jogar"
  /\ showSample = FALSE
  /\ sidebarOpen = FALSE
  /\ installPrompt = Null
  /\ showInstallBanner = FALSE
  /\ localStorage = [k \in StorageKeys |-> Null]
  /\ listening = FALSE
  /\ installCall = Idle
  /\ currentFen = Str(INITIAL_FEN)
  /\ fenInput = Str(<<>>)
  /\ analysis = Null
  /\ loading = FALSE
  /\ error = NoError
  /\ activeAgentId = Null
  /\ request = Null
  /\ PanelInitial

InitPage ==
  /\ \E flag \in {Null, True} : PageLoaded([k \in StorageKeys |-> flag])
  /\ fen = Undefined
  /\ board = NotMounted
  /\ lastFen = Undefined
  /\ lastBoard = Pending
  /\ renders = 0
  /\ text = Undefined
  /\ rendered = NotMounted

NextPage ==
  \/ Navigate \/ ToggleSample \/ ToggleSidebar
  \/ BeforeInstallPrompt \/ HandleInstall \/ HandleInstallPrompted \/ HandleInstallChoice
  \/ HandleDismissInstall
  \/ SetFenInput \/ AnalyzePosition \/ AnalyzePositionSettled
  \/ Reload

SpecPage == InitPage /\ [][NextPage]_vars

(***************************************************************************)
(* The four panels on their own: the sections of a loaded page, the        *)
(* sample-data switch and the navigation between them.                     *)
(***************************************************************************)
InitPanels ==
  /\ PageIdle
  /\ fen = Undefined
  /\ board = NotMounted
  /\ lastFen = Undefined
  /\ lastBoard = Pending
  /\ renders = 0
  /\ text = Undefined
  /\ rendered = NotMounted

NextPanels ==
  \/ Navigate \/ ToggleSample
  \/ SetFenInput \/ AnalyzePosition \/ AnalyzePositionSettled
  \/ GetNewPuzzle \/ GetNewPuzzleSettled \/ SetAnswerInput
  \/ SubmitAnswer \/ SubmitAnswerSettled \/ RevealHint \/ ShowSolution
  \/ StartTraining \/ StartTrainingSettled \/ SetUserInput
  \/ SendMove \/ SendMoveSettled \/ BackToCatalogue
  \/ SetPgnInput \/ SelectMove \/ AnalyzeGame \/ AnalyzeGameSettled

SpecPanels == InitPanels /\ [][NextPanels]_vars

InitFEN ==
  /\ PageIdle
  /\ fen \in FenValues
  /\ board = Pending
  /\ lastFen = Undefined
  /\ lastBoard = Pending
  /\ renders = 1
  /\ text = Undefined
  /\ rendered = NotMounted

InitMD ==
  /\ PageIdle
  /\ text \in TextValues
  /\ rendered = Pending
  /\ fen = Undefined
  /\ board = NotMounted
  /\ lastFen = Undefined
  /\ lastBoard = Pending
  /\ renders = 0

Init == InitFEN \/ InitMD

Next == ChessBoardRender \/ SetFen \/ RenderMarkdown

Spec == Init /\ [][Next]_vars

(***************************************************************************)
(* Vocabulary of the properties, stated on the input text itself.          *)
(***************************************************************************)
\* number of occurrences of the character c in s
CountOf(s, c) == Cardinality({ i \in 1..Len(s) : s[i] = c })

\* the k-th piece of s between occurrences of c (k = 1 for the first)
Segment(s, c, k) ==
  LET seps == { i \in 1..Len(s) : s[i] = c }
      nth(m) == IF m = 0 THEN 0
                ELSE IF m > Cardinality(seps) THEN Len(s) + 1
                ELSE CHOOSE q \in seps : Cardinality({ r \in seps : r < q }) = m - 1
  IN  SubSeq(s, nth(k - 1) + 1, nth(k) - 1)

\* the k-th rank descriptor of a FEN text
Descriptor(s, k) == Segment(BeforeFirstSpace(s), "/", k)

\* the squares a FEN character stands for
SkipValue(c) ==
  CASE c = "1" -> 1 [] c = "2" -> 2 [] c = "3" -> 3 [] c = "4" -> 4
    [] c = "5" -> 5 [] c = "6" -> 6 [] c = "7" -> 7 [] c = "8" -> 8
    [] OTHER -> 0

RECURSIVE CellsOf(_)
CellsOf(d) ==
  IF d = <<>> THEN <<>>
  ELSE (IF SkipValue(Head(d)) > 0 THEN [k \in 1..SkipValue(Head(d)) |-> ""]
        ELSE <<Head(d)>>) \o CellsOf(Tail(d))

SquaresOf(d) == Len(CellsOf(d))

PieceLetters == {"P", "N", "B", "R", "Q", "K", "p", "n", "b", "r", "q", "k"}

\* a well-formed piece-placement field
ValidPlacement(s) ==
  /\ CountOf(s, "/") = 7
  /\ \A k \in 1..8 :
       LET d == Segment(s, "/", k)
       IN  /\ SquaresOf(d) = 8
           /\ \A i \in 1..Len(d) : d[i] \in PieceLetters \/ SkipValue(d[i]) > 0

Decoded == board.t = "ok"
DecodedText == IsString(fen) /\ fen.s # <<>> /\ board.t = "ok"
EmptyCells(rank) == Cardinality({ i \in 1..Len(rank) : rank[i] = "" })

(***************************************************************************)
(* C1 as stated: whatever the input, every rank of the decoded board has   *)
(* exactly 8 cells.  Refuted by a descriptor of more than 8 squares.       *)
(***************************************************************************)
C1_EveryRankHasEightCells ==
  Decoded => \A r \in 1..Len(board.val) : Len(board.val[r]) = 8

(***************************************************************************)
(* C1 amended: every rank of the decoded board has at least 8 cells, and   *)
(* exactly 8 when its descriptor describes at most 8 squares; a descriptor *)
(* of more than 8 squares gives a rank of that many cells.                 *)
(***************************************************************************)
C1_RankWidth ==
  /\ Decoded => \A r \in 1..Len(board.val) : Len(board.val[r]) >= 8
  /\ DecodedText =>
       \A r \in 1..Len(board.val) :
          LET n == SquaresOf(Descriptor(fen.s, r))
          IN  Len(board.val[r]) = IF n <= 8 THEN 8 ELSE n

C1_Witness ==
  /\ DecodedText
  /\ \E r \in 1..Len(board.val) : SquaresOf(Descriptor(fen.s, r)) > 8
  /\ \E r \in 1..Len(board.val) : SquaresOf(Descriptor(fen.s, r)) \in 1..7

(***************************************************************************)
(* C2: each decoded rank is the concatenation, character by character of   *)
(* its descriptor, of n empty cells for a digit n in 1..8 and of one cell  *)
(* holding the character for any other character, extended with empty     *)
(* cells to 8 cells when shorter.                                          *)
(***************************************************************************)
C2_RankContents ==
  DecodedText =>
    \A r \in 1..Len(board.val) :
       LET cells == CellsOf(Descriptor(fen.s, r))
       IN  board.val[r] =
             IF Len(cells) < 8 THEN cells \o [k \in 1..(8 - Len(cells)) |-> ""]
             ELSE cells

C2_Witness ==
  /\ DecodedText
  /\ \E r \in 1..Len(board.val) :
       LET d == Descriptor(fen.s, r)
       IN  /\ \E i \in 1..Len(d) : d[i] \in {"0", "9"}
           /\ \E i \in 1..Len(d) : SkipValue(d[i]) > 0
           /\ \E i \in 1..Len(d) : d[i] = "x"
           /\ SquaresOf(d) < 8

(***************************************************************************)
(* C3 as stated: the decoded board has at most 8 ranks.  Refuted by a      *)
(* placement field with more than seven '/'.                               *)
(***************************************************************************)
C3_AtMostEightRanks == Decoded => Len(board.val) <= 8

(***************************************************************************)
(* C3 amended: the board decoded from a non-empty text has one rank per    *)
(* '/'-separated descriptor of the text before the first space, that is    *)
(* one more than the number of '/' in it, which may exceed 8; the empty    *)
(* or absent input gives 8 ranks.                                          *)
(***************************************************************************)
C3_RankCount ==
  /\ DecodedText => Len(board.val) = CountOf(BeforeFirstSpace(fen.s), "/") + 1
  /\ Decoded /\ ~DecodedText => Len(board.val) = 8

C3_Witness ==
  /\ DecodedText
  /\ Len(board.val) > 8
  /\ \E r \in 1..Len(board.val) : Descriptor(fen.s, r) = <<>>

(***************************************************************************)
(* C4: a well-formed placement field (8 descriptors of exactly 8 squares,  *)
(* digits 1-8 and piece letters only) decodes to 8 ranks of exactly 8      *)
(* cells, none of them a padding cell: the empty cells of a rank are       *)
(* those its digits stand for.                                             *)
(***************************************************************************)
RECURSIVE DigitSum(_)
DigitSum(d) == IF d = <<>> THEN 0 ELSE SkipValue(Head(d)) + DigitSum(Tail(d))

C4_ValidPlacementIsEightByEight ==
  DecodedText /\ ValidPlacement(BeforeFirstSpace(fen.s)) =>
    /\ Len(board.val) = 8
    /\ \A r \in 1..8 :
         /\ Len(board.val[r]) = 8
         /\ EmptyCells(board.val[r]) = DigitSum(Descriptor(fen.s, r))

C4_Witness ==
  /\ DecodedText
  /\ ValidPlacement(fen.s)
  /\ fen.s # BeforeFirstSpace(INITIAL_FEN)
  /\ \E r \in 1..8 : EmptyCells(board.val[r]) \in 1..7

(***************************************************************************)
(* C5: the empty string and the absent value decode to 8 ranks of 8 empty  *)
(* cells.                                                                  *)
(***************************************************************************)
C5_EmptyInputGivesEmptyBoard ==
  Decoded /\ (fen = Undefined \/ fen = Str(<<>>)) =>
    /\ Len(board.val) = 8
    /\ \A r \in 1..8 :
         /\ Len(board.val[r]) = 8
         /\ \A c \in 1..8 : board.val[r][c] = ""

C5_Witness == Decoded /\ fen = Str(<<>>) /\ Len(board.val) = 8

(***************************************************************************)
(* C6 as stated: the starting position decodes to first rank rnbqkbnr,     *)
(* last rank RNBQKBNR and two fully-empty ranks between the two pawn       *)
(* ranks.  Refuted: there are four.                                        *)
(***************************************************************************)
BlackPawns == [c \in 1..8 |-> "p"]
WhitePawns == [c \in 1..8 |-> "P"]
EmptyRank == [c \in 1..8 |-> ""]

\* the fully-empty ranks lying between the two pawn ranks
EmptyBetweenPawns(b) ==
  { r \in 1..Len(b) :
      /\ b[r] = EmptyRank
      /\ \E i \in 1..(r - 1) : b[i] = BlackPawns
      /\ \E j \in (r + 1)..Len(b) : b[j] = WhitePawns }

StartDecoded == fen = Str(INITIAL_FEN) /\ board.t = "ok"

C6_StartTwoEmptyRanks ==
  StartDecoded =>
    /\ board.val[1] = <<"r", "n", "b", "q", "k", "b", "n", "r">>
    /\ board.val[Len(board.val)] = <<"R", "N", "B", "Q", "K", "B", "N", "R">>
    /\ Cardinality(EmptyBetweenPawns(board.val)) = 2

(***************************************************************************)
(* C6 amended: the starting position decodes to 8 ranks, the first         *)
(* rnbqkbnr, the last RNBQKBNR, the second and seventh the pawn ranks,     *)
(* with four fully-empty ranks between the two pawn ranks.                 *)
(***************************************************************************)
C6_StartFourEmptyRanks ==
  StartDecoded =>
    /\ Len(board.val) = 8
    /\ board.val[1] = <<"r", "n", "b", "q", "k", "b", "n", "r">>
    /\ board.val[8] = <<"R", "N", "B", "Q", "K", "B", "N", "R">>
    /\ board.val[2] = BlackPawns
    /\ board.val[7] = WhitePawns
    /\ EmptyBetweenPawns(board.val) = {3, 4, 5, 6}

C6_Witness == StartDecoded /\ Len(board.val) = 8

(***************************************************************************)
(* C7: two non-empty texts that agree up to their first space decode to    *)
(* the same board: the fields after the placement field have no influence. *)
(***************************************************************************)
SamePlacement ==
  /\ IsString(fen) /\ fen.s # <<>>
  /\ IsString(lastFen) /\ lastFen.s # <<>>
  /\ BeforeFirstSpace(fen.s) = BeforeFirstSpace(lastFen.s)
  /\ board # Pending

C7_OnlyPlacementFieldRead == SamePlacement => board = lastBoard

C7_Witness ==
  /\ SamePlacement
  /\ fen # lastFen
  /\ Len(fen.s) > Len(BeforeFirstSpace(fen.s)) + 1
  /\ BeforeFirstSpace(fen.s) # <<>>
  /\ board.t = "ok"

(***************************************************************************)
(* C8: on every string, empty or malformed, parseFEN and renderMarkdown    *)
(* return a value; neither throws.                                         *)
(***************************************************************************)
C8_TotalOnStrings ==
  /\ IsString(fen) /\ board \notin {Pending, NotMounted} => board.t = "ok"
  /\ IsString(text) /\ rendered \notin {Pending, NotMounted} => rendered.t = "ok"

C8_Witness ==
  \/ /\ IsString(fen) /\ board.t = "ok"
     /\ ~ValidPlacement(BeforeFirstSpace(fen.s))
     /\ CountOf(fen.s, " ") = 0
     /\ fen.s # <<>>
  \/ /\ IsString(text) /\ rendered.t = "ok"
     /\ CountOf(text.s, "*") = 3

(***************************************************************************)
(* C9: a non-empty text renders to one block per line of the text, k       *)
(* newlines giving k + 1 blocks, in line order; the i-th block is the      *)
(* block of the i-th line, whatever the other lines are.                   *)
(***************************************************************************)
RenderedText == IsString(text) /\ text.s # <<>> /\ rendered.t = "ok"
Blocks == rendered.val.children.items
Line(k) == Segment(text.s, "\n", k)
Unkeyed(e) == [tag |-> e.tag, children |-> e.children]

C9_OneBlockPerLine ==
  RenderedText =>
    /\ rendered.val.children.t = "array"
    /\ Len(Blocks) = CountOf(text.s, "\n") + 1
    /\ \A i \in 1..Len(Blocks) :
         /\ Blocks[i].key = i - 1
         /\ Unkeyed(Blocks[i]) = Unkeyed(renderLine(Line(i), 0))

C9_Witness ==
  /\ RenderedText
  /\ Len(Blocks) = 3
  /\ Line(1) # <<>> /\ Line(2) = <<>> /\ Line(3) # <<>>
  /\ Blocks[1].tag # Blocks[3].tag

(***************************************************************************)
(* C10: a line that is empty or made of whitespace characters only is      *)
(* rendered as a BlankLine block, never as a heading, a list item or a     *)
(* paragraph.                                                              *)
(***************************************************************************)
WhitespaceOnly(l) == \A i \in 1..Len(l) : l[i] \in {" ", "\t", "\r"}

C10_WhitespaceLineIsBlank ==
  RenderedText =>
    \A i \in 1..(CountOf(text.s, "\n") + 1) :
       WhitespaceOnly(Line(i)) =>
         /\ i <= Len(Blocks)
         /\ Blocks[i].tag = "div-blank"
         /\ Blocks[i].children = NoChildren

C10_Witness ==
  /\ RenderedText
  /\ \E i \in 1..Len(Blocks) :
       /\ Len(Line(i)) >= 2
       /\ WhitespaceOnly(Line(i))
       /\ Blocks[i].tag = "div-blank"
  /\ \E i \in 1..Len(Blocks) : Blocks[i].tag # "div-blank"

(***************************************************************************)
(* Vocabulary of the inline properties, stated on the line itself.         *)
(***************************************************************************)
HeadingTags == {"h2", "h3", "h4"}
TextTags == {"li-disc", "li-decimal", "p"}

\* the inline spans of a block: PlainText or Bold, in order
Plain(s) == [kind |-> "plain", s |-> s]
Bold(s) == [kind |-> "bold", s |-> s]

Spans(children) ==
  IF children.t = "string" THEN << Plain(children.s) >>
  ELSE IF children.t = "array"
       THEN [i \in 1..Len(children.items) |->
               IF children.items[i].tag = "strong" THEN Bold(children.items[i].children.s)
               ELSE Plain(children.items[i].children.s)]
       ELSE <<>>

\* number of '#' characters a line starts with
LeadingHashes(l) ==
  LET other == { i \in 1..Len(l) : l[i] # "#" }
  IN  IF other = {} THEN Len(l) ELSE (CHOOSE i \in other : \A j \in other : i <= j) - 1

\* number of digits a line starts with
LeadingDigitCount(l) ==
  LET other == { i \in 1..Len(l) : l[i] \notin {"0","1","2","3","4","5","6","7","8","9"} }
  IN  IF other = {} THEN Len(l) ELSE (CHOOSE i \in other : \A j \in other : i <= j) - 1

\* digits, a '.', one character of seps, then anything
NumberedWith(l, seps) ==
  LET d == LeadingDigitCount(l)
  IN  d >= 1 /\ Len(l) >= d + 2 /\ l[d + 1] = "." /\ l[d + 2] \in seps

Drop(l, n) == SubSeq(l, n + 1, Len(l))

\* the text a list item or paragraph hands to the inline pass
InlineText(l, tag) ==
  IF tag = "li-disc" THEN Drop(l, 2)
  ELSE IF tag = "li-decimal" THEN Drop(l, LeadingDigitCount(l) + 2)
  ELSE l

\* the positions of the '**' markers of a text, left to right, no overlap
RECURSIVE MarkersFrom(_, _)
MarkersFrom(s, p) ==
  IF p >= Len(s) THEN <<>>
  ELSE IF s[p] = "*" /\ s[p + 1] = "*" THEN <<p>> \o MarkersFrom(s, p + 2)
  ELSE MarkersFrom(s, p + 1)

Markers(s) == MarkersFrom(s, 1)

\* the spans of a text whose markers pair up first with second, third with
\* fourth, ...; an unpaired last marker stays in the last PlainText
PairSpans(s) ==
  LET m == Markers(s)
      n == Len(m) \div 2
      from(j) == IF j = 1 THEN 1 ELSE m[2 * j - 2] + 2
  IN  IF n = 0 THEN << Plain(s) >>
      ELSE [i \in 1..(2 * n + 1) |->
              IF i = 2 * n + 1 THEN Plain(SubSeq(s, m[2 * n] + 2, Len(s)))
              ELSE IF i % 2 = 1 THEN Plain(SubSeq(s, from((i + 1) \div 2), m[i] - 1))
              ELSE Bold(SubSeq(s, m[i - 1] + 2, m[i] - 1))]

EndsWith(s, suffix) ==
  Len(s) >= Len(suffix) /\ SubSeq(s, Len(s) - Len(suffix) + 1, Len(s)) = suffix

(***************************************************************************)
(* C11 as stated: the inline pass extracts Bold spans in the text of every *)
(* block that carries text, headings included: '# a **b** c' is a Heading  *)
(* with spans PlainText('a '), Bold('b'), PlainText(' c').  Refuted: a     *)
(* heading keeps its text as one literal string, asterisks included.       *)
(***************************************************************************)
C11_HeadingInlineBold ==
  RenderedText =>
    \A i \in 1..Len(Blocks) :
       Blocks[i].tag \in HeadingTags =>
         Spans(Blocks[i].children) = PairSpans(Drop(Line(i), LeadingHashes(Line(i)) + 1))

(***************************************************************************)
(* C12 as stated: a line is an ordered ListItem exactly when it is one or  *)
(* more digits, a '.', a space character, then content.  Refuted by a tab  *)
(* after the '.'.                                                          *)
(***************************************************************************)
C12_OrderedOnlyWithSpace ==
  RenderedText =>
    \A i \in 1..Len(Blocks) :
       Blocks[i].tag = "li-decimal" <=> NumberedWith(Line(i), {" "})

(***************************************************************************)
(* C12 amended: a line is an ordered ListItem exactly when it is one or    *)
(* more digits, a '.', one whitespace character (a space, a tab, a         *)
(* carriage return, ...), then possibly empty content; its text is the     *)
(* line without the digits, the '.' and that one whitespace character.     *)
(***************************************************************************)
C12_OrderedListItem ==
  RenderedText =>
    \A i \in 1..Len(Blocks) :
       /\ Blocks[i].tag = "li-decimal" <=> NumberedWith(Line(i), {" ", "\t", "\r"})
       /\ Blocks[i].tag = "li-decimal" =>
            Blocks[i].children = formatInline(Drop(Line(i), LeadingDigitCount(Line(i)) + 2))

C12_Witness ==
  /\ RenderedText
  /\ \E i \in 1..Len(Blocks) :
       /\ Blocks[i].tag = "li-decimal"
       /\ LeadingDigitCount(Line(i)) = 2
       /\ Line(i)[4] = "\t"
       /\ Blocks[i].children = Str(<<"a">>)

(***************************************************************************)
(* C13: a line of k '#' (k in 1..3) followed by a space is a Heading of    *)
(* level k (rendered h2, h3, h4) whose text is the line without those      *)
(* k + 1 characters; four or more '#', or '#' without a following space,   *)
(* is not a heading.                                                       *)
(***************************************************************************)
HeadingLevel(tag) == CASE tag = "h2" -> 1 [] tag = "h3" -> 2 [] tag = "h4" -> 3 [] OTHER -> 0

C13_HeadingClassification ==
  RenderedText =>
    \A i \in 1..Len(Blocks) :
       LET k == LeadingHashes(Line(i))
       IN  IF k \in 1..3 /\ Len(Line(i)) > k /\ Line(i)[k + 1] = " "
           THEN /\ HeadingLevel(Blocks[i].tag) = k
                /\ Blocks[i].children = Str(Drop(Line(i), k + 1))
           ELSE Blocks[i].tag \notin HeadingTags

C13_Witness ==
  /\ RenderedText
  /\ Len(Blocks) = 3
  /\ Blocks[1].tag = "h4" /\ LeadingHashes(Line(1)) = 3
  /\ Blocks[2].tag = "p" /\ LeadingHashes(Line(2)) = 4
  /\ Blocks[3].tag = "h2" /\ LeadingHashes(Line(3)) = 1

(***************************************************************************)
(* C14: a line starting with '- ' or '* ' is an unordered ListItem whose   *)
(* text is the line without its first 2 characters; consecutive such lines *)
(* give one unordered ListItem each, in input order.                       *)
(***************************************************************************)
Bulleted(l) == Len(l) >= 2 /\ l[1] \in {"-", "*"} /\ l[2] = " "

C14_UnorderedListItem ==
  RenderedText =>
    \A i \in 1..Len(Blocks) :
       /\ Blocks[i].tag = "li-disc" <=> Bulleted(Line(i))
       /\ Bulleted(Line(i)) =>
            /\ Blocks[i].key = i - 1
            /\ Blocks[i].children = formatInline(Drop(Line(i), 2))

C14_Witness ==
  /\ RenderedText
  /\ Len(Blocks) = 2
  /\ Blocks[1].tag = "li-disc" /\ Blocks[2].tag = "li-disc"
  /\ Len(Line(1)) > 2 /\ Len(Line(2)) > 2

(***************************************************************************)
(* C15 as stated: in a list item or paragraph every segment enclosed by a  *)
(* pair of '**' markers is a Bold span holding the enclosed content and    *)
(* every other segment a PlainText, in order.  The code departs from it    *)
(* when a carriage return lies between the two markers.                    *)
(***************************************************************************)
C15_PairsAreBold ==
  RenderedText =>
    \A i \in 1..Len(Blocks) :
       Blocks[i].tag \in TextTags =>
         Spans(Blocks[i].children) = PairSpans(InlineText(Line(i), Blocks[i].tag))

(***************************************************************************)
(* C16: a text with exactly one '**' marker has no Bold span: it is one    *)
(* plain text equal to the input, asterisks included.                      *)
(***************************************************************************)
C16_LoneMarkerIsPlain ==
  RenderedText =>
    \A i \in 1..Len(Blocks) :
       Blocks[i].tag \in TextTags /\ Len(Markers(InlineText(Line(i), Blocks[i].tag))) = 1 =>
         Blocks[i].children = Str(InlineText(Line(i), Blocks[i].tag))

C16_Witness ==
  /\ RenderedText
  /\ \E i \in 1..Len(Blocks) :
       /\ Blocks[i].tag = "p"
       /\ Markers(Line(i)) = <<1>>
       /\ Len(Line(i)) = 3

TwoNewlines == text = Str(<<"\n", "\n">>) /\ rendered.t = "ok"

C18_TwoBlankLines ==
  TwoNewlines =>
    /\ Len(Blocks) = 2
    /\ \A i \in 1..Len(Blocks) : Blocks[i].tag = "div-blank"

(***************************************************************************)
(* C18 amended: the text of two newlines renders to exactly three          *)
(* BlankLine blocks, one per line of the split.                            *)
(***************************************************************************)
C18_ThreeBlankLines ==
  TwoNewlines =>
    /\ Len(Blocks) = 3
    /\ \A i \in 1..Len(Blocks) : Blocks[i].tag = "div-blank" /\ Blocks[i].children = NoChildren

C18_Witness == TwoNewlines /\ Len(Blocks) = 3

(***************************************************************************)
(* C19: the empty text and the absent value render to no block at all      *)
(* (null), not to a BlankLine block.                                       *)
(***************************************************************************)
C19_EmptyTextRendersNothing ==
  (text = Str(<<>>) \/ text = Undefined) /\ rendered \notin {Pending, NotMounted} =>
    rendered = Ok(Null)

C19_Witness == text = Str(<<>>) /\ rendered = Ok(Null)

(***************************************************************************)
(* C20 as stated: no operation of the application writes state that        *)
(* outlives the session: whatever the user does (navigation, agent calls,  *)
(* installing from or dismissing the install banner), persistent browser   *)
(* storage is unchanged.  Refuted by dismissing the install banner.        *)
(***************************************************************************)
C20_StorageNeverWritten == [][localStorage' = localStorage]_vars

(***************************************************************************)
(* C20 amended: the only operation that writes persistent browser storage  *)
(* is dismissing the install banner, which sets the localStorage item      *)
(* 'pwa-install-dismissed' to 'true'; every other operation (navigation,   *)
(* the switches, agent calls, installing from the banner, a reload)        *)
(* leaves storage unchanged.                                               *)
(***************************************************************************)
C20_OnlyDismissWritesStorage ==
  [][ /\ localStorage' # localStorage => HandleDismissInstall
      /\ HandleDismissInstall =>
           /\ localStorage'["pwa-install-dismissed"] = True
           /\ \A k \in StorageKeys \ {"pwa-install-dismissed"} :
                localStorage'[k] = localStorage[k] ]_vars

\* the flag was absent when the page was loaded (the listener is
\* registered) and the banner has been dismissed since, with the sample
\* switch on and the result of an agent call on screen
C20_Witness ==
  /\ listening
  /\ localStorage["pwa-install-dismissed"] = True
  /\ ~showInstallBanner
  /\ analysis # Null
  /\ showSample

(***************************************************************************)
(* Vocabulary of the panel properties.                                     *)
(***************************************************************************)
\* the agent calls of the section on screen that await their response
AwaitedCalls == (IF request # Null THEN 1 ELSE 0) + Len(inFlight)

\* what the panels store of the agent's answers
StoredResults == <<analysis, openingData, puzzleData, puzzleStats, reviewData, currentFen>>

AnalysisTexts == {"analysis_type", "position_evaluation", "summary", "material_balance"}
AnalysisLists == {"best_moves", "strategic_themes", "move_classifications", "key_weaknesses"}
OpeningTexts ==
  {"opening_name", "eco_code", "current_position_fen", "current_move", "move_explanation",
   "next_prompt", "user_move_feedback"}
OpeningLists == {"main_line", "key_variations", "strategic_plans", "typical_mistakes"}
PuzzleTexts ==
  {"puzzle_fen", "side_to_move", "difficulty", "tactical_theme", "puzzle_prompt",
   "solution_explanation", "user_answer_feedback", "pattern_lesson", "next_action"}
PuzzleLists == {"solution", "hints"}

AllLists(rec, fields) == rec # Null => \A f \in fields : rec[f].t = "array"
AllTexts(rec, fields) == rec # Null => \A f \in fields : rec[f].t = "string"

(***************************************************************************)
(* C21 as stated: in every record stored from an agent response each       *)
(* list-typed field is a list and each text field is a string, whatever    *)
(* the types of the fields in the response.  Refuted: a text field of the  *)
(* response that is a number, a list or an object is stored as it is.      *)
(***************************************************************************)
C21_StoredFieldsWellTyped ==
  /\ AllLists(analysis, AnalysisLists) /\ AllTexts(analysis, AnalysisTexts)
  /\ AllLists(reviewData, AnalysisLists) /\ AllTexts(reviewData, AnalysisTexts)
  /\ AllLists(openingData, OpeningLists) /\ AllTexts(openingData, OpeningTexts)
  /\ AllLists(puzzleData, PuzzleLists) /\ AllTexts(puzzleData, PuzzleTexts)

(***************************************************************************)
(* C22: an agent call is issued once and not retried.  Each of             *)
(* analyzePosition, startTraining, sendMove, getNewPuzzle, submitAnswer    *)
(* and analyzeGame adds exactly one awaited call; when that call throws,   *)
(* no call is issued in its place, the error message becomes non-empty,    *)
(* loading false and activeAgentId null, and the stored results (analysis, *)
(* openingData, puzzleData, puzzleStats, reviewData, currentFen) are left  *)
(* unchanged.                                                              *)
(***************************************************************************)
Issues == AwaitedCalls' = AwaitedCalls + 1

Failed ==
  /\ AwaitedCalls' = AwaitedCalls - 1
  /\ error'.s # <<>>
  /\ ~loading'
  /\ activeAgentId' = Null
  /\ StoredResults' = StoredResults

C22_ThrowIsReportedOnce ==
  [][ /\ AnalyzePosition \/ StartTraining \/ SendMove \/ GetNewPuzzle \/ SubmitAnswer
           \/ AnalyzeGame => Issues
      /\ AnalyzePositionSettledWith(Throw("Error")) => Failed
      /\ \A i \in 1..Len(inFlight) :
            ( \/ StartTrainingSettledWith(i, Throw("Error"))
              \/ SendMoveSettledWith(i, Throw("Error"))
              \/ GetNewPuzzleSettledWith(i, Throw("Error"))
              \/ SubmitAnswerSettledWith(i, Throw("Error"))
              \/ AnalyzeGameSettledWith(i, Throw("Error")) ) => Failed ]_vars

\* a game was analysed and a second analysis of it has failed
C22_Witness ==
  /\ error = GameError
  /\ reviewData # Null
  /\ ~loading
  /\ inFlight = <<>>

(***************************************************************************)
(* C23 as stated: while a call of the section on screen awaits its         *)
(* response, loading is true and activeAgentId is non-null, and at most    *)
(* one call is awaited.  Refuted: Enter in the chat input or in the answer *)
(* input issues a call while another one is awaited, and the first         *)
(* response clears loading.                                                *)
(***************************************************************************)
C23_OneAwaitedCallWhileLoading ==
  /\ AwaitedCalls <= 1
  /\ AwaitedCalls >= 1 => loading /\ activeAgentId # Null

(***************************************************************************)
(* C24 as stated: the feedback stored on the current puzzle comes from the *)
(* evaluation of an answer submitted for that same puzzle: a submitAnswer  *)
(* response is never merged into a puzzle other than the one whose FEN was *)
(* sent in its request (the agent's feedback quotes that FEN).  Refuted: a *)
(* response that arrives after a new puzzle was delivered is merged into   *)
(* the new puzzle.                                                         *)
(***************************************************************************)
C24_FeedbackIsForStoredPuzzle ==
  ~Falsy(puzzleData) /\ puzzleData.user_answer_feedback # Str(<<>>) =>
     puzzleData.user_answer_feedback = puzzleData.puzzle_fen

(***************************************************************************)
(* C25 as stated: whenever a puzzle fetched by getNewPuzzle becomes the    *)
(* stored puzzle, hintsRevealed is 0 and showSolution is false.  Refuted:  *)
(* a hint or the solution of the puzzle on screen can be revealed while    *)
(* the request is in flight.                                               *)
(***************************************************************************)
C25_NewPuzzleStartsUnrevealed ==
  [][ \A i \in Awaits("getNewPuzzle") : \A d \in PuzzlePool :
        GetNewPuzzleSettledWith(i, Ok(d)) => hintsRevealed' = 0 /\ ~showSolution' ]_vars

(***************************************************************************)
(* C26 as stated: whenever the catalogue is shown (isTraining is false),   *)
(* openingData is null and chatHistory is empty.  Refuted: the response of *)
(* a startTraining or sendMove call that arrives after Voltar ao Catalogo  *)
(* stores its opening and its chat entry.                                  *)
(***************************************************************************)
C26_CatalogueHasNoOpening ==
  ~isTraining => openingData = Null /\ chatHistory = <<>>

(***************************************************************************)
(* C27 as stated: every agent call that completes without result data sets *)
(* a non-empty error message, for all six operations.  Refuted by sendMove *)
(* and submitAnswer, which have no branch for an answer without data.      *)
(***************************************************************************)
C27_EmptyAnswerIsReported ==
  [][ /\ AnalyzePositionSettledWith(Ok(Undefined)) => error'.s # <<>>
      /\ \A i \in 1..Len(inFlight) :
            ( \/ StartTrainingSettledWith(i, Ok(Undefined))
              \/ SendMoveSettledWith(i, Ok(Undefined))
              \/ GetNewPuzzleSettledWith(i, Ok(Undefined))
              \/ SubmitAnswerSettledWith(i, Ok(Undefined))
              \/ AnalyzeGameSettledWith(i, Ok(Undefined)) ) => error'.s # <<>> ]_vars

(***************************************************************************)
(* C28: the statistics always satisfy 0 <= streak <= correct <= total.  A  *)
(* submitAnswer response that carries data increases total by exactly 1;   *)
(* when its is_correct is true or 'true' it increases correct and streak   *)
(* by 1, otherwise it leaves correct unchanged and resets streak to 0.  No *)
(* other step (getNewPuzzle, revealHint, show solution, a failed or empty  *)
(* submitAnswer, ...) changes the statistics.                              *)
(***************************************************************************)
StatsOrdered ==
  /\ 0 <= puzzleStats.streak
  /\ puzzleStats.streak <= puzzleStats.correct
  /\ puzzleStats.correct <= puzzleStats.total

SaysCorrect(d) == "is_correct" \in DOMAIN d /\ d.is_correct \in { Bool(TRUE), True }

C28_PuzzleStatistics ==
  /\ StatsOrdered
  /\ [][ /\ StatsOrdered'
         /\ \A i \in Awaits("submitAnswer") : \A d \in AnswerPool(inFlight[i]) :
               SubmitAnswerSettledWith(i, Ok(d)) =>
                 /\ puzzleStats'.total = puzzleStats.total + 1
                 /\ IF SaysCorrect(d)
                    THEN /\ puzzleStats'.correct = puzzleStats.correct + 1
                         /\ puzzleStats'.streak = puzzleStats.streak + 1
                    ELSE /\ puzzleStats'.correct = puzzleStats.correct
                         /\ puzzleStats'.streak = 0
         /\ puzzleStats' # puzzleStats /\ activeSection' = activeSection =>
               \E i \in Awaits("submitAnswer") : \E d \in AnswerPool(inFlight[i]) :
                  SubmitAnswerSettledWith(i, Ok(d)) ]_vars

\* two answers were evaluated, the first wrong and the second right
C28_Witness ==
  puzzleStats = [streak |-> 1, total |-> 2, correct |-> 1]

(***************************************************************************)
(* C29 as stated: hintsRevealed is at most the number of hints of the      *)
(* displayed puzzle, and 0 when no puzzle is displayed.  Refuted: hints    *)
(* revealed while a getNewPuzzle request is in flight, or on the sample    *)
(* puzzle, stay revealed when the displayed puzzle changes.                *)
(***************************************************************************)
C29_HintsRevealedWithinHints ==
  hintsRevealed <= IF Falsy(displayPuzzle) THEN 0 ELSE Len(displayPuzzle.hints.items)

(***************************************************************************)
(* C30 as stated: once the install banner was dismissed (the flag          *)
(* 'pwa-install-dismissed' is 'true'), the banner is never shown again,    *)
(* neither in the same page session nor after a reload.  Refuted in the    *)
(* same session: the beforeinstallprompt handler stays registered.         *)
(***************************************************************************)
C30_DismissedBannerStaysHidden ==
  getItem(localStorage, "pwa-install-dismissed") = True => ~BannerShown

====
